---- MODULE Spec2Model ----
(***************************************************************************)
(* Model of the Puppeteer relay of naodalemu/server.                       *)
(*                                                                         *)
(* The repository holds six revisions of relayRequestWithPuppeteer and of  *)
(* the inbound handler that calls it:                                      *)
(*   "apiA"  src/api/index.js     lines   1-169                            *)
(*   "apiB"  src/api/index.js     lines 171-284                            *)
(*   "srvA"  src/server.js        lines   1-119                            *)
(*   "srvB"  src/server.js        lines 121-249                            *)
(*   "p0"    src/unnamed/part_000                                          *)
(*   "p1"    src/unnamed/part_001                                          *)
(* A run is one inbound request served by one revision.  Every await of    *)
(* the relay is one action; the outcome of an external call (the browser,  *)
(* the origin page, the upstream API) is chosen nondeterministically.      *)
(***************************************************************************)
EXTENDS Integers, Sequences, FiniteSets, TLC

VARIABLES run, nextId, open, ops, jText, jStatus, jOut

vars == <<run, nextId, open, ops, jText, jStatus, jOut>>

(***************************************************************************)
(* Bounds of the model.                                                    *)
(***************************************************************************)
NumRuns == 2
MaxTextLen == 5

Runs == 1..NumRuns

(***************************************************************************)
(* Program constants.                                                      *)
(***************************************************************************)
ProxyErrorStatus == 502
ExecErrorStatus == 500
PreflightStatusCors == 204
PreflightStatusPlain == 200

Revs == {"apiA", "apiB", "srvA", "srvB", "p0", "p1"}
ExpressRevs == {"srvA", "srvB", "p1"}

Methods == {"GET", "POST", "PUT", "PATCH", "DELETE"}
InboundMethods == Methods \cup {"OPTIONS"}

stateChangingMethods == {"POST", "PUT", "DELETE", "PATCH"}

baseApiUrl == "https://ssr-system.ct.ws"

(***************************************************************************)
(* Request bodies.  A body is undefined (def = FALSE) or an object, held   *)
(* as its set of <<key, value>> members.                                   *)
(***************************************************************************)
Undefined == [def |-> FALSE, obj |-> {}]
EmptyObj == [def |-> TRUE, obj |-> {}]
SomeObj == [def |-> TRUE, obj |-> {<<"name", "x">>}]

\* express.json() always leaves an object in req.body; the serverless
\* handlers pass req.body on as the platform gives it, undefined included.
BodiesOf(rev) ==
    IF rev \in ExpressRevs THEN {EmptyObj, SomeObj} ELSE {Undefined, EmptyObj, SomeObj}

\* JS truthiness of a token read from the page: null and "" are falsy.
Truthy(t) == t \notin {"null", ""}

(***************************************************************************)
(* Response normalisation (api/index.js 124-133).  A response text is a    *)
(* sequence of lexical symbols: "1" a digit, "s" a string literal, the     *)
(* brackets, braces and colon of JSON, and "<" any character that starts   *)
(* no JSON value (an HTML page).  A parsed value is a record               *)
(* [t, n, items]: t its type, n the number, items the members.             *)
(***************************************************************************)
Sym == {"1", "s", "[", "]", "{", "}", ":", "<"}

JNum(n) == [t |-> "num", n |-> n, items |-> <<>>]
JStr == [t |-> "str", n |-> 0, items |-> <<>>]
JArr(items) == [t |-> "arr", n |-> 0, items |-> items]
JObj(items) == [t |-> "obj", n |-> 0, items |-> items]
JFail == [ok |-> FALSE, val |-> JStr, next |-> 0]
JOk(v, next) == [ok |-> TRUE, val |-> v, next |-> next]

At(t, i) == IF i \in 1..Len(t) THEN t[i] ELSE "eof"

\* The end of the run of digits that starts at i, and its value.
RECURSIVE DigitsEnd(_, _)
DigitsEnd(t, i) == IF At(t, i) = "1" THEN DigitsEnd(t, i + 1) ELSE i

RECURSIVE DigitsValue(_, _, _)
DigitsValue(t, i, j) == IF i >= j THEN 0 ELSE 10 * DigitsValue(t, i, j - 1) + 1

\* One JSON value starting at position i of t.
RECURSIVE ParseValue(_, _)
ParseValue(t, i) ==
    CASE At(t, i) = "1" ->
           LET j == DigitsEnd(t, i) IN JOk(JNum(DigitsValue(t, i, j)), j)
      [] At(t, i) = "s" -> JOk(JStr, i + 1)
      [] At(t, i) = "[" ->
           IF At(t, i + 1) = "]" THEN JOk(JArr(<<>>), i + 2)
           ELSE LET e == ParseValue(t, i + 1) IN
                IF e.ok /\ At(t, e.next) = "]"
                THEN JOk(JArr(<<e.val>>), e.next + 1) ELSE JFail
      [] At(t, i) = "{" ->
           IF At(t, i + 1) = "}" THEN JOk(JObj(<<>>), i + 2)
           ELSE IF At(t, i + 1) = "s" /\ At(t, i + 2) = ":"
                THEN LET e == ParseValue(t, i + 3) IN
                     IF e.ok /\ At(t, e.next) = "}"
                     THEN JOk(JObj(<<e.val>>), e.next + 1) ELSE JFail
                ELSE JFail
      [] OTHER -> JFail

\* JSON.parse: the whole text must be one value; anything else throws.
JSONparse(t) ==
    LET e == ParseValue(t, 1) IN
    IF e.ok /\ e.next = Len(t) + 1 THEN e ELSE JFail

\* Payloads of a RelayResult, all of one shape: kind tells which field counts.
JsonData(v) == [kind |-> "json", val |-> v, text |-> <<>>, error |-> FALSE, message |-> <<>>]
TextData(t) == [kind |-> "text", val |-> JStr, text |-> t, error |-> FALSE, message |-> <<>>]
MessageData(m) == [kind |-> "message", val |-> JStr, text |-> <<>>, error |-> FALSE, message |-> m]
ErrorData(m) == [kind |-> "error", val |-> JStr, text |-> <<>>, error |-> TRUE, message |-> m]
NoData == [kind |-> "none", val |-> JStr, text |-> <<>>, error |-> FALSE, message |-> <<>>]

\* try { responseData = JSON.parse(responseText) } catch { responseData = responseText }
ParseOrRawDropsText(text) ==
    LET e == JSONparse(text) IN IF e.ok THEN JsonData(e.val) ELSE TextData(<<>>)
ParseOrRaw(text) ==
    LET e == JSONparse(text) IN IF e.ok THEN JsonData(e.val) ELSE TextData(text)

\* return { status: apiResponse.status, data: responseData }
NormalizeAlwaysOk(status, text) == [status |-> 200, data |-> ParseOrRaw(text)]
Normalize(status, text) == [status |-> status, data |-> ParseOrRaw(text)]

\* catch (error) inside page.evaluate: { status: 500, data: { message } }
ExecError(rev, msg) ==
    [status |-> ExecErrorStatus,
     data |-> MessageData(IF rev = "apiA" THEN <<"page.evaluate() fetch failed: ", msg>>
                          ELSE <<msg>>)]

\* catch (error) of the relay: { status: 502, data: { error: true, message: `Proxy error: ...` } }
ProxyErrorBare(msg) == [status |-> ProxyErrorStatus, data |-> MessageData(<<msg>>)]
ProxyError(msg) ==
    [status |-> ProxyErrorStatus, data |-> ErrorData(<<"Proxy error: ", msg>>)]

NoResult == [status |-> 0, data |-> NoData]

(***************************************************************************)
(* The steps of relayRequestWithPuppeteer that differ between revisions.   *)
(***************************************************************************)
\* Whether the revision scrapes a CSRF token for the method.
ExtractsTokenAlways(rev, method) == TRUE
ExtractsToken(rev, method) ==
    CASE rev = "apiA" -> method \in stateChangingMethods
      [] rev = "srvA" -> FALSE
      [] OTHER -> method = "POST"

\* The methods for which the in-document fetch may carry a body.
BodyMethods(rev) ==
    IF rev = "apiA" THEN stateChangingMethods ELSE {"POST", "PUT", "PATCH"}

\* The step after the origin page has settled.
AfterSettleAlwaysExtracts(rev, method) ==
    CASE rev = "apiA" -> "waitSel"
      [] rev = "srvB" -> "formGoto"
      [] OTHER -> "extract"
AfterSettle(rev, method) ==
    CASE ~ExtractsToken(rev, method) -> "fetch"
      [] rev = "apiA" -> "waitSel"
      [] rev = "srvB" -> "formGoto"
      [] OTHER -> "extract"

AfterGoto(rev, method) ==
    CASE rev = "apiA" -> "cookies"
      [] rev = "apiB" -> "sleep"
      [] OTHER -> AfterSettle(rev, method)

\* The page the token is read from: its csrf-token meta tag and its hidden
\* _token input, each absent, present with an empty value, or holding a token.
MetaVals == {"absent", "", "Tm"}
InputVals == {"absent", "", "Ti"}
\* The XSRF-TOKEN cookie of the page's session, absent or URL-encoded.
CookieVals == {"absent", "Tc%3D"}
Doms == [meta : MetaVals, input : InputVals, cookie : CookieVals]
NoDom == [meta |-> "absent", input |-> "absent", cookie |-> "absent"]

\* The value of the page.evaluate() callback that reads the token.
ReadToken(rev, dom) ==
    CASE rev = "apiA" -> IF dom.meta # "absent" THEN dom.meta ELSE "null"
      [] rev = "srvB" -> IF dom.input # "absent" THEN dom.input ELSE "null"
      [] OTHER -> IF dom.meta # "absent" THEN dom.meta
                  ELSE IF dom.input # "absent" THEN dom.input ELSE "null"

\* body._token = csrfToken
InjectToken(body, tok) ==
    [def |-> TRUE, obj |-> {m \in body.obj : m[1] # "_token"} \cup {<<"_token", tok>>}]

BaseHeaders(rev) ==
    {<<"Content-Type", "application/json">>, <<"Accept", "application/json">>}
    \cup (IF rev = "apiA" THEN {<<"X-Requested-With", "XMLHttpRequest">>} ELSE {})

\* if (body && Object.keys(body).length > 0 && [...].includes(method))
CarriesBodyAnyMethod(rev, method, body) == body.def /\ body.obj # {}
CarriesBody(rev, method, body) ==
    body.def /\ body.obj # {} /\ method \in BodyMethods(rev)

\* The callback of the executor's page.evaluate(), up to its fetch(): the
\* request it builds, or threw = TRUE when building it throws.  In apiA
\* `headers = token` assigns to the const headers, a TypeError whenever
\* the token is truthy.
BuildRequestMethodSpoofed(rev, path, method, body, tok) ==
    [threw |-> rev = "apiA" /\ Truthy(tok),
     url |-> <<baseApiUrl, "/api/", path>>,
     method |-> IF method \in {"PUT", "PATCH", "DELETE"} THEN "POST" ELSE method,
     headers |-> BaseHeaders(rev),
     body |-> IF CarriesBody(rev, method, body)
              THEN [def |-> TRUE, obj |-> body.obj \cup {<<"_method", method>>}]
              ELSE Undefined]
BuildRequest(rev, path, method, body, tok) ==
    [threw |-> rev = "apiA" /\ Truthy(tok),
     url |-> <<baseApiUrl, "/api/", path>>,
     method |-> method,
     headers |-> BaseHeaders(rev),
     body |-> IF CarriesBody(rev, method, body) THEN body ELSE Undefined]

NoRequest ==
    [threw |-> FALSE, url |-> <<>>, method |-> "none", headers |-> {}, body |-> Undefined]

NoAnswer == [answered |-> FALSE, status |-> 0, text |-> <<>>]
Answer(status, text) == [answered |-> TRUE, status |-> status, text |-> text]

(***************************************************************************)
(* State.  run[r] is the state of run r: pc the await it is at, browser    *)
(* its local `browser` (0 is null), body the body object as the code has   *)
(* changed it, inBody the body as it came in, hist the external calls it   *)
(* has made, in order.  open is the set of browser instances alive, ops    *)
(* the <<browser, run, call>> triples of every call made on a browser.     *)
(***************************************************************************)
IdleRun ==
    [pc |-> "idle", rev |-> "none", method |-> "none", path |-> "none",
     inBody |-> Undefined, body |-> Undefined, browser |-> 0,
     auth |-> "none", session |-> "unread",
     nav |-> "none", fault |-> FALSE, dom |-> NoDom, token |-> "null", sent |-> FALSE, request |-> NoRequest,
     up |-> NoAnswer, pending |-> NoResult, result |-> NoResult,
     response |-> NoResult, hist |-> <<>>]

Init ==
    /\ run = [r \in Runs |-> IdleRun]
    /\ nextId = 1
    /\ open = {}
    /\ ops = {}
    /\ jText = <<>>
    /\ jStatus = 0
    /\ jOut = NoResult

\* The handle of a newly launched browser: every launch makes a new instance,
\* held in the local variable `browser` of the call.
SharedBrowserId == IF nextId > 1 THEN nextId - 1 ELSE nextId
NewBrowserId == nextId

\* An exception reaching the relay's catch: the 502 result is what the call
\* will return once finally has run.
ThrowRetriesOnce(s, msg) ==
    [s EXCEPT !.pending = ProxyError(msg),
              !.pc = IF s.pending = NoResult THEN "launch" ELSE "finally"]
Throw(s, msg) == [s EXCEPT !.pending = ProxyError(msg), !.pc = "finally"]

Call(s, name) == [s EXCEPT !.hist = Append(@, name)]

\* An external call failed for a reason of its own: the browser, the network.
Fault(s) == [s EXCEPT !.fault = TRUE]

\* A call on the page of a browser that has gone away can only throw.
PageOutcomes(r) == IF run[r].browser \in open THEN {"ok", "throw"} ELSE {"throw"}

OnPage(r) == ops' = ops \cup {<<run[r].browser, r, "page">>}

JsonIdle == UNCHANGED <<jText, jStatus, jOut>>

(***************************************************************************)
(* The inbound handler.  e bounds what the environment offers: the         *)
(* revisions deployed, the methods, paths, upstream answers and pages.     *)
(***************************************************************************)
\* The status of the answer to a preflight: cors() ends an OPTIONS request with
\* 204 before the handler's own test; part_000 sets the headers itself and
\* answers 200.
PreflightStatusAlwaysCors(rev) == PreflightStatusCors
PreflightStatus(rev) == IF rev = "p0" THEN PreflightStatusPlain ELSE PreflightStatusCors

\* handler / app.all: OPTIONS is answered at once, anything else is relayed.
Handler(r, e) ==
    /\ run[r].pc = "idle"
    /\ \E rev \in e.revs, method \in e.methods, path \in e.paths, auth \in e.auths :
       \E body \in BodiesOf(rev) \cap e.bodies :
          LET s == [run[r] EXCEPT !.rev = rev, !.method = method, !.path = path,
                                  !.inBody = body, !.body = body, !.auth = auth]
          IN run' = [run EXCEPT ![r] =
                       IF method = "OPTIONS"
                       THEN [s EXCEPT !.pc = "preflight",
                                      !.response = [status |-> PreflightStatus(rev),
                                                    data |-> NoData]]
                       ELSE [s EXCEPT !.pc = "launch"]]
    /\ UNCHANGED <<nextId, open, ops>>
    /\ JsonIdle

\* browser = await puppeteer.launch({..., executablePath: await chromium.executablePath()})
Launch(r) ==
    /\ run[r].pc = "launch"
    /\ LET s == run[r] IN
       \E out \in {"ok", "pathThrows", "launchThrows"} :
         CASE out = "ok" ->
                /\ run' = [run EXCEPT ![r] =
                             [Call(s, "launch") EXCEPT !.browser = NewBrowserId,
                                                       !.pc = "newPage"]]
                /\ nextId' = nextId + 1
                /\ open' = open \cup {NewBrowserId}
                /\ ops' = ops \cup {<<NewBrowserId, r, "launch">>}
           [] out = "pathThrows" ->
                /\ run' = [run EXCEPT ![r] = Throw(Fault(s), "executablePath")]
                /\ UNCHANGED <<nextId, open, ops>>
           [] out = "launchThrows" ->
                /\ run' = [run EXCEPT ![r] = Throw(Fault(Call(s, "launch")), "launch")]
                /\ UNCHANGED <<nextId, open, ops>>
    /\ JsonIdle

\* const page = await browser.newPage()
NewPage(r) ==
    /\ run[r].pc = "newPage"
    /\ LET s == Call(run[r], "newPage") IN
       \E out \in PageOutcomes(r) :
         run' = [run EXCEPT ![r] =
                   IF out = "ok" THEN [s EXCEPT !.pc = "goto"] ELSE Throw(Fault(s), "newPage")]
    /\ OnPage(r)
    /\ UNCHANGED <<nextId, open>>
    /\ JsonIdle

\* await page.goto(baseApiUrl, ...): the origin settles, or the navigation
\* times out or fails.  apiA catches the failure to take a screenshot first.
Goto(r) ==
    /\ run[r].pc = "goto"
    /\ LET s == Call(run[r], "goto") IN
       \E out \in PageOutcomes(r) :
         run' = [run EXCEPT ![r] =
                   IF out = "ok"
                   THEN [s EXCEPT !.nav = "settled", !.pc = AfterGoto(s.rev, s.method)]
                   ELSE IF s.rev = "apiA"
                   THEN [Fault(s) EXCEPT !.nav = "failed", !.pc = "navShot"]
                   ELSE Throw([Fault(s) EXCEPT !.nav = "failed"], "navigation")]
    /\ OnPage(r)
    /\ UNCHANGED <<nextId, open>>
    /\ JsonIdle

\* apiA, catch (navError): await page.screenshot(); throw new Error(...).
\* Whether the screenshot succeeds or throws, the relay's catch is next.
NavShot(r) ==
    /\ run[r].pc = "navShot"
    /\ LET s == Call(run[r], "screenshot") IN
       \E out \in PageOutcomes(r) :
         run' = [run EXCEPT ![r] =
                   IF out = "ok" THEN Throw(s, "Navigation timed out or failed.")
                   ELSE Throw(Fault(s), "screenshot")]
    /\ OnPage(r)
    /\ UNCHANGED <<nextId, open>>
    /\ JsonIdle

\* apiB: await new Promise(resolve => setTimeout(resolve, 3000))
Sleep(r) ==
    /\ run[r].pc = "sleep"
    /\ LET s == run[r] IN
       run' = [run EXCEPT ![r] = [s EXCEPT !.pc = AfterSettle(s.rev, s.method)]]
    /\ UNCHANGED <<nextId, open, ops>>
    /\ JsonIdle

\* if (!cookies.some(c => c.name.includes('session'))) console.warn(...):
\* the step after the cookies have been read, whether or not one of them is a
\* session cookie.
AfterCookies(s, session) ==
    [s EXCEPT !.session = session, !.pc = AfterSettle(s.rev, s.method)]

\* apiA: const cookies = await page.cookies(); a missing session cookie is
\* only logged.
Cookies(r, e) ==
    /\ run[r].pc = "cookies"
    /\ LET s == Call(run[r], "cookies") IN
       \E out \in PageOutcomes(r), session \in e.sessions :
         run' = [run EXCEPT ![r] =
                   IF out = "ok" THEN AfterCookies(s, session)
                   ELSE Throw(Fault(s), "cookies")]
    /\ OnPage(r)
    /\ UNCHANGED <<nextId, open>>
    /\ JsonIdle

\* apiA: await page.waitForSelector('meta[name="csrf-token"]', { timeout: 7000 }).
\* The wait ends when the page has the meta tag and times out when it has not.
WaitSel(r, e) ==
    /\ run[r].pc = "waitSel"
    /\ LET s == Call(run[r], "waitSel") IN
       \E out \in PageOutcomes(r), dom \in e.doms :
         run' = [run EXCEPT ![r] =
                   IF out = "throw" THEN [Fault(s) EXCEPT !.pc = "tokShot"]
                   ELSE IF dom.meta # "absent"
                   THEN [s EXCEPT !.dom = dom, !.pc = "extract"]
                   ELSE [s EXCEPT !.dom = dom, !.pc = "tokShot"]]
    /\ OnPage(r)
    /\ UNCHANGED <<nextId, open>>
    /\ JsonIdle

\* srvB: await page.goto(formPageUrl, ...), a second navigation, to the page
\* named like the API path.
FormGoto(r) ==
    /\ run[r].pc = "formGoto"
    /\ LET s == Call(run[r], "formGoto") IN
       \E out \in PageOutcomes(r) :
         run' = [run EXCEPT ![r] =
                   IF out = "ok" THEN [s EXCEPT !.pc = "extract"]
                   ELSE Throw(Fault(s), "navigation")]
    /\ OnPage(r)
    /\ UNCHANGED <<nextId, open>>
    /\ JsonIdle

\* What follows the read of the token.  apiA throws when the token is empty
\* (to its inner catch, which takes a screenshot).  The other revisions put a
\* truthy token into the body, `body._token = csrfToken`, a TypeError when
\* body is undefined, and go on without a token otherwise.
AfterExtract(s, tok) ==
    CASE s.rev = "apiA" ->
           IF Truthy(tok) THEN [s EXCEPT !.token = tok, !.pc = "fetch"]
           ELSE [s EXCEPT !.pc = "tokShot"]
      [] s.rev # "apiA" /\ Truthy(tok) ->
           IF s.body.def
           THEN [s EXCEPT !.token = tok, !.body = InjectToken(s.body, tok), !.pc = "fetch"]
           ELSE Throw([s EXCEPT !.token = tok], "TypeError: body is undefined")
      [] OTHER -> [s EXCEPT !.pc = "fetch"]

\* csrfToken = await page.evaluate(() => ...): reads the token off the page.
Extract(r, e) ==
    /\ run[r].pc = "extract"
    /\ LET s == Call(run[r], "extract") IN
       \E out \in PageOutcomes(r), d \in e.doms :
         LET dom == IF s.rev = "apiA" THEN s.dom ELSE d IN
         run' = [run EXCEPT ![r] =
                   IF out = "ok"
                   THEN AfterExtract([s EXCEPT !.dom = dom], ReadToken(s.rev, dom))
                   ELSE IF s.rev = "apiA" THEN [Fault(s) EXCEPT !.pc = "tokShot"]
                   ELSE Throw(Fault(s), "evaluate")]
    /\ OnPage(r)
    /\ UNCHANGED <<nextId, open>>
    /\ JsonIdle

\* apiA, catch (tokenError): await page.screenshot(); throw new Error(...)
TokShot(r) ==
    /\ run[r].pc = "tokShot"
    /\ LET s == Call(run[r], "screenshot") IN
       \E out \in PageOutcomes(r) :
         run' = [run EXCEPT ![r] =
                   IF out = "ok"
                   THEN Throw(s, "Could not find the CSRF token meta tag on the page.")
                   ELSE Throw(Fault(s), "screenshot")]
    /\ OnPage(r)
    /\ UNCHANGED <<nextId, open>>
    /\ JsonIdle

\* const response = await page.evaluate(async (url, method, body, ...) => {...}).
\* The callback builds the request, fetches, reads the text and normalises it;
\* whatever throws inside it becomes the 500 result.  A page.evaluate() that
\* itself rejects (the page or the protocol connection fails) reaches the
\* relay's catch, before the callback has called fetch or while the fetch is
\* under way.  fetch(url, requestOptions) has no signal and no timer beside
\* it: when the upstream never answers, the await of page.evaluate() stays
\* pending ("hung").
Execute(r, e) ==
    /\ run[r].pc = "fetch"
    /\ LET s == Call(run[r], "evaluate")
           req == BuildRequest(s.rev, s.path, s.method, s.body, s.token)
           issued == [Call(s, "fetch") EXCEPT !.sent = TRUE, !.request = req,
                                              !.pc = "finally"]
       IN \E out \in PageOutcomes(r) :
            IF out = "throw"
            THEN \E late \in BOOLEAN :
                   run' = [run EXCEPT ![r] =
                             IF late /\ ~req.threw
                             THEN Throw(Fault([Call(s, "fetch") EXCEPT !.sent = TRUE,
                                                                       !.request = req]),
                                        "evaluate")
                             ELSE Throw(Fault(s), "evaluate")]
            ELSE IF req.threw
            THEN run' = [run EXCEPT ![r] =
                           [s EXCEPT !.pending =
                                        ExecError(s.rev, "Assignment to constant variable."),
                                     !.pc = "finally"]]
            ELSE \E f \in e.fetches,
                    status \in e.statuses, text \in e.texts :
                   run' = [run EXCEPT ![r] =
                     CASE f = "answer" ->
                            [issued EXCEPT !.up = Answer(status, text),
                                           !.pending = Normalize(status, text)]
                       [] f = "textThrows" ->
                            [Fault(issued) EXCEPT
                               !.up = Answer(status, <<>>),
                               !.pending = ExecError(s.rev, "body read failed")]
                       [] f = "never" ->
                            [Fault(issued) EXCEPT !.pc = "hung"]
                       [] OTHER ->
                            [Fault(issued) EXCEPT
                               !.pending = ExecError(s.rev, "Failed to fetch")]]
    /\ OnPage(r)
    /\ UNCHANGED <<nextId, open>>
    /\ JsonIdle

\* if (browser): the browser is closed when the launch gave one.
MustCloseOnSuccess(s) == s.browser # 0 /\ s.pending.status # ProxyErrorStatus
MustCloseAlways(s) == TRUE
MustCloseUnlessNavFailed(s) == s.browser # 0 /\ s.nav # "failed"
MustClose(s) == s.browser # 0

\* finally { if (browser) await browser.close() }, then the return of the
\* pending result.  A close() that rejects replaces the return: the call
\* rejects.
Finally(r) ==
    /\ run[r].pc = "finally"
    /\ LET s == run[r] IN
       IF ~MustClose(s)
       THEN /\ run' = [run EXCEPT ![r] = [s EXCEPT !.pc = "returned", !.result = s.pending]]
            /\ UNCHANGED <<open, ops>>
       ELSE \E out \in PageOutcomes(r), gone \in BOOLEAN :
              /\ run' = [run EXCEPT ![r] =
                           IF out = "ok"
                           THEN [Call(s, "close") EXCEPT !.pc = "returned",
                                                         !.result = s.pending]
                           ELSE [Fault(Call(s, "close")) EXCEPT !.pc = "rejected"]]
              /\ open' = IF out = "ok" \/ gone THEN open \ {s.browser} ELSE open
              /\ ops' = ops \cup {<<s.browser, r, "close">>}
    /\ UNCHANGED nextId
    /\ JsonIdle

\* const result = await relayRequestWithPuppeteer(...);
\* res.status(result.status).json(result.data).  Nothing catches a rejection.
Respond(r) ==
    /\ run[r].pc \in {"returned", "rejected"}
    /\ LET s == run[r] IN
       run' = [run EXCEPT ![r] =
                 IF s.pc = "returned" THEN [s EXCEPT !.pc = "responded", !.response = s.result]
                 ELSE [s EXCEPT !.pc = "unhandled"]]
    /\ UNCHANGED <<nextId, open, ops>>
    /\ JsonIdle

(***************************************************************************)
(* Specifications.                                                         *)
(*   Spec      one request at a time, every revision, method and body.     *)
(*   SpecConc  NumRuns requests served concurrently by one deployment.     *)
(*   SpecLive  Spec with the fairness of the event loop: a pending await   *)
(*             is eventually resumed.                                      *)
(*   SpecJson  the response normalisation applied to every text.           *)
(***************************************************************************)
UpStatuses == {200, 419, 500, 502}

HtmlPage == <<"<", "s", "<">>
JsonBody == <<"{", "s", ":", "1", "}">>

FullEnv ==
    [revs |-> Revs, methods |-> InboundMethods, paths |-> {"menuitems"},
     bodies |-> {Undefined, EmptyObj, SomeObj},
     fetches |-> {"answer", "networkError", "textThrows", "never"},
     auths |-> {"none", "Bearer t"}, sessions |-> {"present", "missing"},
     statuses |-> UpStatuses, texts |-> {JsonBody, HtmlPage}, doms |-> Doms]

\* The concurrent runs are GET requests to the current revision of
\* api/index.js whose upstream call is answered.
ConcEnv ==
    [revs |-> {"apiA"}, methods |-> {"GET"}, paths |-> {"menuitems"},
     bodies |-> {SomeObj}, fetches |-> {"answer"},
     auths |-> {"none"}, sessions |-> {"present"},
     statuses |-> {200}, texts |-> {JsonBody}, doms |-> {NoDom}]

Step(r, e) ==
    \/ Handler(r, e)
    \/ Launch(r)
    \/ NewPage(r)
    \/ Goto(r)
    \/ NavShot(r)
    \/ Sleep(r)
    \/ Cookies(r, e)
    \/ WaitSel(r, e)
    \/ FormGoto(r)
    \/ Extract(r, e)
    \/ TokShot(r)
    \/ Execute(r, e)
    \/ Finally(r)
    \/ Respond(r)

Next == Step(1, FullEnv)

Spec == Init /\ [][Next]_vars

SpecLive == Spec /\ WF_vars(Next)

ConcStep(r) ==
    \/ Handler(r, ConcEnv)
    \/ Launch(r)
    \/ NewPage(r)
    \/ Goto(r)
    \/ NavShot(r)
    \/ Cookies(r, ConcEnv)
    \/ Execute(r, ConcEnv)
    \/ Finally(r)
    \/ Respond(r)

NextConc == \E r \in Runs : ConcStep(r)

SpecConc == Init /\ [][NextConc]_vars

Texts == UNION {[1..n -> Sym] : n \in 0..MaxTextLen}

InitJson ==
    /\ run = [r \in Runs |-> IdleRun]
    /\ nextId = 1
    /\ open = {}
    /\ ops = {}
    /\ jText \in Texts
    /\ jStatus \in UpStatuses
    /\ jOut = NoResult

\* The tail of the executor's callback, applied to one upstream response.
NormalizeResponse ==
    /\ jOut = NoResult
    /\ jOut' = Normalize(jStatus, jText)
    /\ UNCHANGED <<run, nextId, open, ops, jText, jStatus>>

NextJson == NormalizeResponse

SpecJson == InitJson /\ [][NextJson]_vars

(***************************************************************************)
(* Properties.                                                             *)
(***************************************************************************)
RelayDone(s) == s.pc \in {"returned", "rejected", "responded", "unhandled"}
Returned(s) == s.pc \in {"returned", "responded"}
Count(h, name) == Cardinality({i \in 1..Len(h) : h[i] = name})
Has(h, name) == \E i \in 1..Len(h) : h[i] = name
TokenSought(s) == Has(s.hist, "waitSel") \/ Has(s.hist, "extract")

\* C1: for every method and every body object, when the browser launched, the
\* origin settled, no external call failed and a token that was looked for
\* was found, the call returns a result whose status is the status the
\* upstream answered with.
C1_StatusIsUpstream ==
    \A r \in Runs : LET s == run[r] IN
      (/\ RelayDone(s) /\ s.browser # 0 /\ s.nav = "settled" /\ ~s.fault
       /\ s.inBody.def
       /\ TokenSought(s) => Truthy(s.token))
      => Returned(s) /\ s.up.answered /\ s.result.status = s.up.status

\* C2: a mutating request for which no token was found on the page is still
\* fetched, without a token, and the call returns the upstream's status.
C2_TokenlessProceeds ==
    \A r \in Runs : LET s == run[r] IN
      (/\ RelayDone(s) /\ s.method \in {"POST", "PUT", "PATCH", "DELETE"}
       /\ s.nav = "settled" /\ ~s.fault /\ ~Truthy(s.token))
      => s.sent /\ Returned(s) /\ s.up.answered /\ s.result.status = s.up.status

\* C3, as claimed: at the end of every run, a launch failure included, the
\* browser has been closed exactly once.
C3_ClosedOnceAlways ==
    \A r \in Runs : LET s == run[r] IN
      RelayDone(s) => Count(s.hist, "close") = 1

\* C3, amended: close() is never called twice; at the end of a run it has
\* been called exactly once when the launch gave a browser and not at all
\* when the launch failed.
C3_ClosedOncePerLaunch ==
    \A r \in Runs : LET s == run[r] IN
      /\ Count(s.hist, "close") <= 1
      /\ Count(s.hist, "close") = 1 => s.browser # 0
      /\ RelayDone(s) => Count(s.hist, "close") = (IF s.browser # 0 THEN 1 ELSE 0)

C3_Witness ==
    \E r \in Runs : LET s == run[r] IN
      /\ RelayDone(s) /\ s.nav = "failed" /\ s.browser # 0
      /\ Count(s.hist, "close") = 1 /\ s.result.status = ProxyErrorStatus

\* C4: no call of the relay rejects, and no handler is left with a rejection
\* nothing catches.
C4_NeverRejects ==
    \A r \in Runs : run[r].pc \notin {"rejected", "unhandled"}

LaunchFailed(s) == s.browser = 0 /\ s.pc \notin {"idle", "launch", "preflight"}

\* C5: after a failed launch the call returns status 502 with error = true
\* and a message holding "Proxy error", and the run makes no call on a page:
\* no navigation, no token extraction, no fetch.
C5_LaunchFailure ==
    \A r \in Runs : LET s == run[r] IN
      LaunchFailed(s) =>
        /\ s.pc \in {"finally", "returned", "responded"}
        /\ s.pending.status = 502
        /\ s.pending.data.error
        /\ \E i \in 1..Len(s.pending.data.message) :
              s.pending.data.message[i] = "Proxy error: "
        /\ Returned(s) => s.result = s.pending
        /\ s.pc = "responded" => s.response = s.pending
        /\ \A i \in 1..Len(s.hist) : s.hist[i] = "launch"
        /\ ~s.sent

C5_Witness ==
    \E r \in Runs : LET s == run[r] IN
      LaunchFailed(s) /\ s.pc = "responded" /\ s.response.status = 502

\* C6: once the navigation to the origin has timed out the run makes no token
\* extraction and no fetch, and it ends by returning status 502.
C6_NavTimeoutReturns502 ==
    \A r \in Runs : LET s == run[r] IN
      s.nav = "failed" =>
        /\ ~TokenSought(s) /\ ~Has(s.hist, "evaluate") /\ ~s.sent
        /\ RelayDone(s) => Returned(s) /\ s.result.status = 502

\* C7, as claimed: the fetch carries a body exactly when the inbound body is
\* not empty and the method is one that carries a body.
C7_BodyIffInboundBody ==
    \A r \in Runs : LET s == run[r] IN
      s.sent => (s.request.body.def <=>
                   (s.inBody.def /\ s.inBody.obj # {} /\ s.method \in BodyMethods(s.rev)))

\* C7, amended: the fetch carries a body exactly when the body handed to the
\* executor, the inbound members plus the _token member a revision other than
\* apiA injects, is not empty and the method carries a body (POST, PUT, PATCH,
\* in apiA also DELETE); the body carried has exactly those members; a GET
\* carries none; an empty inbound body is carried only as a POST's {_token}.
C7_BodyIffEffectiveBody ==
    \A r \in Runs : LET s == run[r]
                       carrying == IF s.rev = "apiA" THEN {"POST", "PUT", "PATCH", "DELETE"}
                                   ELSE {"POST", "PUT", "PATCH"}
                       injected == s.rev # "apiA" /\ Truthy(s.token)
                       eff == IF injected THEN s.inBody.obj \cup {<<"_token", s.token>>}
                              ELSE s.inBody.obj
                   IN
      s.sent =>
        /\ s.request.body.def <=> (eff # {} /\ s.method \in carrying)
        /\ s.request.body.def => s.request.body.obj = eff
        /\ s.method = "GET" => ~s.request.body.def
        /\ (s.inBody.obj = {} /\ s.request.body.def) =>
              s.method = "POST" /\ s.request.body.obj = {<<"_token", s.token>>}

C7_Witness ==
    \E r \in Runs : LET s == run[r] IN
      s.sent /\ s.inBody = EmptyObj /\ s.request.body.def /\ s.up.answered

(***************************************************************************)
(* The JSON texts, written out from the values: Stringify is the inverse   *)
(* the parser is checked against, and ValidTexts the texts of all values   *)
(* that fit in MaxTextLen symbols.                                         *)
(***************************************************************************)
RECURSIVE Digits(_)
Digits(n) == IF n < 10 THEN <<"1">> ELSE Append(Digits(n \div 10), "1")

RECURSIVE Stringify(_)
Stringify(v) ==
    CASE v.t = "num" -> Digits(v.n)
      [] v.t = "str" -> <<"s">>
      [] v.t = "arr" ->
           <<"[">> \o (IF v.items = <<>> THEN <<>> ELSE Stringify(v.items[1])) \o <<"]">>
      [] OTHER ->
           <<"{">> \o (IF v.items = <<>> THEN <<>>
                       ELSE <<"s", ":">> \o Stringify(v.items[1])) \o <<"}">>

RECURSIVE Ones(_)
Ones(k) == IF k = 0 THEN 0 ELSE 10 * Ones(k - 1) + 1

RECURSIVE JValues(_)
JValues(d) ==
    IF d = 0 THEN {JNum(Ones(k)) : k \in 1..MaxTextLen} \cup {JStr}
    ELSE LET V == JValues(d - 1) IN
         V \cup {JArr(<<>>), JObj(<<>>)} \cup {JArr(<<v>>) : v \in V}
           \cup {JObj(<<v>>) : v \in V}

ValidTexts == {t \in {Stringify(v) : v \in JValues(MaxTextLen \div 2)} : Len(t) <= MaxTextLen}

\* C8: a response text that is valid JSON comes back as the value it denotes
\* (written out again, the value gives the text), a text that is not valid
\* JSON comes back as that very text, and the status is the upstream's.
C8_Normalization ==
    jOut # NoResult =>
      /\ jOut.status = jStatus
      /\ jText \in ValidTexts =>
           jOut.data.kind = "json" /\ Stringify(jOut.data.val) = jText
      /\ jText \notin ValidTexts =>
           jOut.data.kind = "text" /\ jOut.data.text = jText

C8_Witness ==
    /\ jText = HtmlPage /\ jStatus = 500
    /\ jOut.status = 500 /\ jOut.data.kind = "text" /\ jOut.data.text = HtmlPage

C11_ExecutorCatchesAll ==
    \A r \in Runs : LET s == run[r] IN
      (Has(s.hist, "evaluate") /\ s.pc \notin {"fetch", "hung"}) =>
        /\ s.pending.data.kind \in {"json", "text", "message"}
        /\ s.pending.data.kind = "message" => s.pending.status = ExecErrorStatus

\* C12: the fetch that was issued carries an Authorization header exactly when
\* the inbound request carried one, and then with the inbound value.
C12_AuthorizationForwarded ==
    \A r \in Runs : LET s == run[r] IN
      s.sent =>
        /\ s.auth # "none" => <<"Authorization", s.auth>> \in s.request.headers
        /\ s.auth = "none" => \A h \in s.request.headers : h[1] # "Authorization"

\* C13: when a token was read off the page for a request with a body object
\* and no external call failed, the run has issued the fetch to
\* <origin>/api/<path>, and the fetch carries the token, as the value of a
\* header or as the body member _token, with the JSON Content-Type and Accept
\* headers.
C13_TokenCarried ==
    \A r \in Runs : LET s == run[r] IN
      (/\ RelayDone(s) /\ s.method \in stateChangingMethods /\ s.inBody.def
       /\ Truthy(s.token) /\ ~s.fault)
      => /\ s.sent
         /\ s.request.url = <<baseApiUrl, "/api/", s.path>>
         /\ \/ \E h \in s.request.headers : h[2] = s.token
            \/ <<"_token", s.token>> \in s.request.body.obj
         /\ <<"Content-Type", "application/json">> \in s.request.headers
         /\ <<"Accept", "application/json">> \in s.request.headers

\* The place of an external call in the order of a run: launch, the page, the
\* navigation to the origin, the cookies, the token extraction (form page,
\* selector wait, page read, the screenshot of a failure), the in-document
\* fetch, close.
StepRank(name) ==
    CASE name = "launch" -> 1
      [] name = "newPage" -> 2
      [] name = "goto" -> 3
      [] name = "cookies" -> 4
      [] name \in {"formGoto", "waitSel"} -> 5
      [] name = "extract" -> 6
      [] name = "screenshot" -> 7
      [] name = "evaluate" -> 8
      [] name = "fetch" -> 9
      [] OTHER -> 10

\* C14: the external calls of a run are made one after the other in the order
\* launch, navigation to the origin, token extraction, in-document fetch,
\* close; the token is looked for only for a mutating method and only once
\* the origin has settled; the fetch starts only once the origin has settled;
\* a run is at one await at a time, and close is the last call on the browser.
C14_StepOrder ==
    \A r \in Runs : LET s == run[r] IN
      /\ \A i, j \in 1..Len(s.hist) : i < j => StepRank(s.hist[i]) < StepRank(s.hist[j])
      /\ s.hist # <<>> => s.hist[1] = "launch"
      /\ TokenSought(s) => s.method \in stateChangingMethods /\ s.nav = "settled"
      /\ (Has(s.hist, "evaluate") \/ s.sent \/ s.pc = "fetch") => s.nav = "settled"
      /\ Has(s.hist, "goto") => Has(s.hist, "newPage")
      /\ Has(s.hist, "close") =>
           /\ s.hist[Len(s.hist)] = "close"
           /\ s.pc \in {"returned", "rejected", "responded", "unhandled"}
      /\ \A o \in ops : (o[2] = r /\ o[3] # "launch") => <<o[1], r, "launch">> \in ops

C14_Witness ==
    \E r \in Runs : LET s == run[r] IN
      /\ s.pc = "responded" /\ s.method = "POST"
      /\ s.hist = <<"launch", "newPage", "goto", "extract", "evaluate", "fetch", "close">>
      /\ Truthy(s.token) /\ s.up.answered

\* C15: whenever a run that launched a browser has a result, returned by the
\* relay or sent by the handler, browser.close() was its last call and has
\* completed: the browser is no longer open.  This covers the runs whose
\* navigation or token extraction timed out.
C15_ClosedBeforeResult ==
    \A r \in Runs : LET s == run[r] IN
      (s.browser # 0 /\ (Returned(s) \/ s.result # NoResult \/ s.response # NoResult)) =>
        /\ s.hist[Len(s.hist)] = "close"
        /\ s.browser \notin open
        /\ <<s.browser, r, "close">> \in ops

C15_Witness ==
    \E r \in Runs : LET s == run[r] IN
      /\ s.pc = "responded" /\ s.browser # 0 /\ s.browser \notin open
      /\ Has(s.hist, "waitSel") /\ Has(s.hist, "screenshot") /\ ~Has(s.hist, "evaluate")
      /\ s.response.status = ProxyErrorStatus

NewPageFailed(s) ==
    Has(s.hist, "newPage") /\ ~Has(s.hist, "goto") /\ s.pc \notin {"newPage", "goto"}

\* C16: when the browser was launched and browser.newPage() throws, the run
\* closes the browser once and ends by returning status 502.
C16_PartialAcquisition ==
    \A r \in Runs : LET s == run[r] IN
      (NewPageFailed(s) /\ RelayDone(s)) =>
        /\ Count(s.hist, "close") = 1
        /\ s.browser \notin open
        /\ Returned(s) /\ s.result.status = ProxyErrorStatus

\* What "no token attached" means for the fetch of run s: the headers are the
\* literal ones and a body carried is the inbound body, unchanged.
NoTokenAttached(s) ==
    /\ s.token = "null"
    /\ s.body = s.inBody
    /\ s.sent =>
         /\ \A h \in s.request.headers :
               h[1] \in {"Content-Type", "Accept", "X-Requested-With"}
         /\ s.request.body.def => s.request.body = s.inBody

\* C17, as claimed: a token is looked for only for POST, PUT, PATCH and for a
\* DELETE that has a body; for GET and for a DELETE without a body there is no
\* selector wait, no page read, and no token on the fetch.
C17_ExtractionOnlyWithBody ==
    \A r \in Runs : LET s == run[r]
                       withBody == s.inBody.def /\ s.inBody.obj # {}
                       mutating == \/ s.method \in {"POST", "PUT", "PATCH"}
                                   \/ s.method = "DELETE" /\ withBody
                   IN
      (s.pc # "idle" /\ ~mutating) => ~TokenSought(s) /\ NoTokenAttached(s)

\* C17, amended: a token is looked for only for POST, PUT, PATCH and DELETE,
\* with or without a body (api/index.js), in the body-injecting revisions only
\* for POST, in the first server.js never; for GET, and whenever no token was
\* looked for, there is no selector wait, no page read, and no token on the
\* fetch.
C17_ExtractionOnlyMutating ==
    \A r \in Runs : LET s == run[r]
                       sought == CASE s.rev = "apiA" -> {"POST", "PUT", "PATCH", "DELETE"}
                                   [] s.rev = "srvA" -> {}
                                   [] OTHER -> {"POST"}
                   IN
      /\ TokenSought(s) => s.method \in sought
      /\ s.method \in {"GET", "OPTIONS"} => ~TokenSought(s)
      /\ (s.pc # "idle" /\ ~TokenSought(s)) => NoTokenAttached(s)

C17_Witness ==
    \E r \in Runs : LET s == run[r] IN
      /\ s.rev = "apiA" /\ s.method = "DELETE" /\ ~s.inBody.def
      /\ Has(s.hist, "waitSel") /\ Has(s.hist, "extract") /\ Truthy(s.token)
      /\ RelayDone(s)

\* decodeURIComponent of the cookie value.
URLDecoded(c) == IF c = "Tc%3D" THEN "Tc=" ELSE c

\* The token of the first of the three sources that has one.
FirstToken(dom) ==
    CASE dom.meta # "absent" /\ Truthy(dom.meta) -> dom.meta
      [] dom.input # "absent" /\ Truthy(dom.input) -> dom.input
      [] dom.cookie # "absent" -> URLDecoded(dom.cookie)
      [] OTHER -> "null"

\* C18: when the token has been looked for on a page and no external call
\* failed, the token held is that of the first source that has one, in the
\* order meta tag, hidden form field, cookie (URL-decoded), and it is null
\* only when none of the three has one.
C18_SourcePriority ==
    \A r \in Runs : LET s == run[r] IN
      (Has(s.hist, "extract") /\ s.pc # "extract" /\ ~s.fault /\ s.inBody.def)
      => s.token = FirstToken(s.dom)

\* C19: when the origin has settled without a session cookie and no external
\* call fails, the run goes on: it looks for the token when the method is a
\* mutating one, issues the fetch, and returns the status the upstream
\* answered the fetch with.
C19_MissingSessionProceeds ==
    \A r \in Runs : LET s == run[r] IN
      (s.session = "missing" /\ RelayDone(s) /\ ~s.fault) =>
        /\ s.method \in stateChangingMethods => TokenSought(s)
        /\ s.sent /\ Returned(s)
        /\ s.up.answered /\ s.result.status = s.up.status

\* C20: no step of a run is made twice, whatever its outcome: at most one
\* launch, one page, one navigation to the origin root, one executor call and
\* one in-document fetch, and one browser per run.
C20_NoRetry ==
    \A r \in Runs : LET s == run[r] IN
      /\ Count(s.hist, "launch") <= 1
      /\ Count(s.hist, "newPage") <= 1
      /\ Count(s.hist, "goto") <= 1
      /\ Count(s.hist, "evaluate") <= 1
      /\ Count(s.hist, "fetch") <= 1
      /\ Cardinality({o \in ops : o[2] = r /\ o[3] = "launch"}) <= 1

C20_Witness ==
    \E r \in Runs : LET s == run[r] IN
      /\ s.pc = "responded" /\ s.sent /\ ~s.up.answered
      /\ Count(s.hist, "fetch") = 1 /\ Count(s.hist, "launch") = 1
      /\ s.response.status = ExecErrorStatus

InProgress(s) == s.pc \notin {"idle", "preflight", "responded", "unhandled"}

\* C21: a run never blocks: at every await of a run in progress something can
\* still happen to it, the awaited call answering or its timeout expiring, so
\* the run goes on to its result even when the browser, the origin or the
\* upstream never responds.
C21_NeverBlocks ==
    \A r \in Runs : InProgress(run[r]) => ENABLED Step(r, FullEnv)

NeverReachedCore(r) ==
    LET s == run[r] IN
      /\ s.pc = "preflight"
      /\ s.hist = <<>> /\ s.browser = 0 /\ ~s.sent
      /\ s.result = NoResult
      /\ \A o \in ops : o[2] # r

\* C22, as claimed: an OPTIONS request is answered with the no-content status
\* 204, and the relay is not called for it: no browser is launched.
C22_OptionsNoContent ==
    \A r \in Runs : LET s == run[r] IN
      s.method = "OPTIONS" =>
        /\ NeverReachedCore(r)
        /\ s.response.status = 204 /\ s.response.data = NoData

\* C22, amended: an OPTIONS request is answered with a success status and an
\* empty body, 204 by the revisions behind cors() and api/index.js's own test,
\* 200 by part_000, and the relay is not called for it: no browser is
\* launched, no call is made, the run has no relay result.
C22_OptionsShortCircuit ==
    \A r \in Runs : LET s == run[r] IN
      s.method = "OPTIONS" =>
        /\ NeverReachedCore(r)
        /\ s.response.status \in {200, 204}
        /\ s.response.status = 200 <=> s.rev = "p0"
        /\ s.response.data = NoData

C22_Witness ==
    \E r \in Runs : LET s == run[r] IN
      /\ s.method = "OPTIONS" /\ s.rev = "p0" /\ s.pc = "preflight"
      /\ s.response.status = 200 /\ open = {}

WithoutToken(obj) == {m \in obj : m[1] # "_token"}

\* C23: the fetch has the inbound method (never rewritten to POST, no _method
\* member in the body) and the URL <origin>/api/<path>; the members of a body
\* it carries are the inbound body's, and a _token member is the inbound one
\* or the token read off the page.
C23_RequestUnchanged ==
    \A r \in Runs : LET s == run[r] IN
      s.sent =>
        /\ s.request.method = s.method
        /\ s.request.url = <<baseApiUrl, "/api/", s.path>>
        /\ s.request.body.def =>
             /\ s.inBody.def
             /\ WithoutToken(s.request.body.obj) = WithoutToken(s.inBody.obj)
             /\ \A m \in s.request.body.obj :
                   /\ m[1] # "_method"
                   /\ m[1] = "_token" => (m \in s.inBody.obj \/ m[2] = s.token)

C23_Witness ==
    \E r \in Runs : LET s == run[r] IN
      /\ s.sent /\ s.method = "PUT" /\ s.up.answered
      /\ s.request.method = "PUT" /\ s.request.body = SomeObj

\* C24: a run that returns the relay's own 502 result, {error: true, "Proxy
\* error: ..."}, has not issued the fetch; and a run that has issued the fetch
\* returns the upstream's status with its payload or the executor's 500
\* {message} result.
C24_ProxyErrorMeansNotSent ==
    \A r \in Runs : LET s == run[r] IN
      Returned(s) =>
        /\ s.result.data.kind = "error" => ~s.sent
        /\ s.sent =>
             \/ /\ s.result.data.kind \in {"json", "text"}
                /\ s.up.answered /\ s.result.status = s.up.status
             \/ /\ s.result.data.kind = "message"
                /\ s.result.status = ExecErrorStatus

\* C25: in a revision that puts the token into the body, a POST that came in
\* without a body and for which a token was found on the page is fetched all
\* the same, and the run returns the status the upstream answered with.
C25_AbsentBodyForwarded ==
    \A r \in Runs : LET s == run[r] IN
      (/\ RelayDone(s) /\ s.rev \notin {"apiA", "srvA"} /\ s.method = "POST"
       /\ ~s.inBody.def /\ Truthy(s.token) /\ ~s.fault)
      => /\ s.sent /\ Returned(s)
         /\ s.up.answered /\ s.result.status = s.up.status

Launches(r) == Cardinality({o \in ops : o[2] = r /\ o[3] = "launch"})

\* C26: browser.close() is called only on the browser the same run launched;
\* when a run has ended it has made as many close calls as it had successful
\* launches, none or one; and once a run has returned its browser is no longer
\* open, however many runs there are and however they interleave.
C26_CloseMatchesLaunch ==
    /\ \A o \in ops :
         o[3] = "close" => /\ o[1] # 0 /\ o[1] = run[o[2]].browser
                           /\ <<o[1], o[2], "launch">> \in ops
    /\ \A r \in Runs : LET s == run[r] IN
         /\ Launches(r) \in {0, 1}
         /\ Launches(r) = 1 <=> s.browser # 0
         /\ Count(s.hist, "close") <= Launches(r)
         /\ RelayDone(s) => Count(s.hist, "close") = Launches(r)
         /\ Returned(s) => s.browser \notin open
    /\ (\A r \in Runs : Returned(run[r])) => open = {}

C26_Witness ==
    \E r1, r2 \in Runs :
      /\ run[r1].pc = "responded" /\ run[r1].browser = 0
      /\ Count(run[r1].hist, "close") = 0
      /\ run[r2].pc = "responded" /\ run[r2].browser # 0
      /\ Count(run[r2].hist, "close") = 1
      /\ open = {}

====
